---- MODULE Spec2Model ----
(***************************************************************************)
(* Connected Labs gateway (gateway/server.js): the command queue and its   *)
(* simulated executor, the alert store and its socket.io fan-out, and the  *)
(* structured proxy routes' instrumentId handling.                         *)
(*                                                                         *)
(* The gateway is one Node.js process: every action below is one callback  *)
(* of its event loop (an HTTP handler, a socket.io handler, a timer), run  *)
(* to completion.                                                          *)
(***************************************************************************)
EXTENDS Integers, Sequences, FiniteSets, TLC

VARIABLES
  now,              \* Date.now(), counted in distinct observed instants
  cmds,             \* the commandObj objects ever created, in creation order
  controlCommands,  \* Map commandId -> commandObj (an index into cmds)
  alerts,           \* the alerts array, newest first
  ingested,         \* number of alerts unshifted so far (ordinal of the newest)
  sock,             \* socket.io connection of each client: "new", "open", "closed"
  rooms,            \* rooms each socket has joined
  inbox,            \* events delivered to each open socket, in delivery order
  timers,           \* commandObjs whose setTimeout is armed (indices into cmds)
  statusLog,        \* per commandObj, the values assigned to its status, in order
  req,              \* the proxy request received and not yet handled
  upstream,         \* number of outbound HTTP requests issued to instruments
  res,              \* the HTTP response written last
  ui                \* the browser: the state of the React components

vars == <<now, cmds, controlCommands, alerts, ingested, sock, rooms, inbox,
          timers, statusLog, req, upstream, res, ui>>

----------------------------------------------------------------------------
(* Bounds of the model *)

MaxCmds == 2      \* accepted command submissions
MaxIngest == 2    \* accepted alert ingests
MaxFill == 502    \* accepted alert ingests when filling the buffer (SpecFill)
MaxHistory == 12  \* accepted alert ingests around a subscription (SpecHistory)
MaxProxied == 2   \* requests forwarded by the generic proxy (SpecInbound)
MaxHosts == 2     \* addresses of the range 10.122.72.10-50 that are scanned
MaxScans == 2     \* network scans started

(* Program constants *)

MAX_ALERTS == 500

----------------------------------------------------------------------------
(* JavaScript values *)

Undefined == [t |-> "undefined"]
Null == [t |-> "null"]
Num(n) == [t |-> "number", n |-> n]
Str(s) == [t |-> "string", s |-> s]
\* the ISO-8601 string of the instant ms (new Date(ms).toISOString())
Iso(ms) == [t |-> "string", s |-> "iso", ms |-> ms]

\* !v
Falsy(v) ==
  \/ v.t \in {"undefined", "null"}
  \/ v.t = "string" /\ v.s = ""
  \/ v.t = "number" /\ v.n = 0
  \/ v.t = "NaN"

\* a < b for a JSON value a and a number b: a string that is no number
\* converts to NaN and every comparison with NaN is false
JsLess(a, b) == a.t = "number" /\ a.n < b
JsGreater(a, b) == a.t = "number" /\ a.n > b

\* an optional field (null until set): <<>> is null, <<v>> is the value v
NullField == <<>>

Min(a, b) == IF a < b THEN a ELSE b
Max(a, b) == IF a > b THEN a ELSE b

----------------------------------------------------------------------------
(* Input domains *)

Clients == {"s1", "s2"}
Instruments == {"i1", "i2"}
\* outcomes of Math.random().toString(36).substr(2, 9)
RandomSuffixes == {"k3x", "q9z"}
\* outcomes of Math.round(executionTime), executionTime in [1000, 3000)
ExecutionTimes == {1000, 3000}

----------------------------------------------------------------------------
(* socket.io *)

Room(kind, id) == <<kind, id>>

\* socket.emit(event, data): to one socket
SocketEmit(box, c, event, data) ==
  [box EXCEPT ![c] = Append(@, [event |-> event, data |-> data])]

\* io.emit(event, data): to every connected socket
IoEmit(box, event, data) ==
  [c \in Clients |->
     IF sock[c] = "open" THEN Append(box[c], [event |-> event, data |-> data])
     ELSE box[c]]

\* mutant: the room is ignored
IoToEmitToAll(box, room, event, data) ==
  [c \in DOMAIN box |->
     IF sock[c] = "open" THEN Append(box[c], [event |-> event, data |-> data])
                         ELSE box[c]]

\* io.to(room).emit(event, data): to every socket that joined the room
IoToEmit(box, room, event, data) ==
  [c \in Clients |->
     IF sock[c] = "open" /\ room \in rooms[c]
     THEN Append(box[c], [event |-> event, data |-> data])
     ELSE box[c]]

----------------------------------------------------------------------------
(* Command queue: validation *)

\* keys every object literal inherits from Object.prototype
ObjectPrototypeKeys == {"constructor", "toString"}

\* mutant: the table has no entry for 'stop'
validationRulesWithoutStop ==
  [c \in {"set_temperature", "set_pressure", "start"} |->
     IF c = "set_temperature"
       THEN [required |-> <<"value">>,
             ranges |-> <<[param |-> "value", min |-> -80, max |-> 300]>>]
     ELSE IF c = "set_pressure"
       THEN [required |-> <<"value">>,
             ranges |-> <<[param |-> "value", min |-> 0, max |-> 1000]>>]
     ELSE [required |-> <<>>, ranges |-> <<>>]]

validationRules ==
  [c \in {"set_temperature", "set_pressure", "start", "stop"} |->
     IF c = "set_temperature"
       THEN [required |-> <<"value">>,
             ranges |-> <<[param |-> "value", min |-> -80, max |-> 300]>>]
     ELSE IF c = "set_pressure"
       THEN [required |-> <<"value">>,
             ranges |-> <<[param |-> "value", min |-> 0, max |-> 1000]>>]
     ELSE [required |-> <<>>, ranges |-> <<>>]]

\* parameters[param]; parameters is an object (its properties a record) or null
Prop(parameters, param) ==
  IF param \in DOMAIN parameters.props THEN parameters.props[param] ELSE Undefined

Object(props) == [t |-> "object", props |-> props]

\* outcome of validateCommandParameters: it returned {valid, error} or threw
Returned(valid, error) == [threw |-> FALSE, valid |-> valid, error |-> error]
Threw(message) == [threw |-> TRUE, valid |-> FALSE, error |-> message]

OutOfRange(value, range) ==
  value # Undefined /\ (JsLess(value, range.min) \/ JsGreater(value, range.max))

validateCommandParameters(command, parameters) ==
  IF command \in ObjectPrototypeKeys
    \* rules is an inherited function, rules.required is undefined:
    \* "for (const param of undefined)" throws
    THEN Threw("TypeError: rules.required is not iterable")
  ELSE IF command \notin DOMAIN validationRules
    THEN Returned(FALSE, [error |-> "Unknown command: ${command}", command |-> command])
  ELSE
    LET rules == validationRules[command]
        missing == {k \in 1..Len(rules.required) :
                      parameters # Null /\ Prop(parameters, rules.required[k]) = Undefined}
        outside == {k \in 1..Len(rules.ranges) :
                      parameters # Null /\
                      OutOfRange(Prop(parameters, rules.ranges[k].param), rules.ranges[k])}
        firstMissing == CHOOSE k \in missing : \A j \in missing : k <= j
        firstOutside == CHOOSE k \in outside : \A j \in outside : k <= j
    IN  IF parameters = Null /\ (Len(rules.required) > 0 \/ Len(rules.ranges) > 0)
          THEN Threw("TypeError: Cannot read properties of null")
        ELSE IF missing # {}
          THEN Returned(FALSE, [error |-> "Missing required parameter: ${param}",
                                param |-> rules.required[firstMissing]])
        ELSE IF outside # {}
          THEN Returned(FALSE,
                 [error |-> "Parameter ${param} out of range (${range.min}-${range.max})",
                  param |-> rules.ranges[firstOutside].param,
                  min |-> rules.ranges[firstOutside].min,
                  max |-> rules.ranges[firstOutside].max])
        ELSE Returned(TRUE, [error |-> ""])

----------------------------------------------------------------------------
(* Command queue: submission and simulated execution *)

\* `cmd_${Date.now()}_${Math.random().toString(36).substr(2, 9)}`
CommandId(t, rnd) == <<"cmd", t, rnd>>

\* mutant: the record is created with an empty result instead of null
NewCommandWithResult(commandId, id, command, parameters, t) ==
  [id |-> commandId, instrumentId |-> id, command |-> command,
   parameters |-> parameters, timestamp |-> t, status |-> "pending",
   result |-> <<[success |-> FALSE]>>, error |-> NullField]

NewCommand(commandId, id, command, parameters, t) ==
  [id |-> commandId, instrumentId |-> id, command |-> command,
   parameters |-> parameters, timestamp |-> t, status |-> "pending",
   result |-> NullField, error |-> NullField]

\* mutant: the status is not set to 'executing' before the await
ExecuteStartSkipsExecuting(commandObj) == commandObj

\* executeCommandAsync up to its await: runs inside the caller's callback
ExecuteStart(commandObj) == [commandObj EXCEPT !.status = "executing"]

\* mutant: the failure branch records the error and forgets the status
ExecuteFinishKeepsStatus(commandObj, shouldFail, executionTime) ==
  IF shouldFail
    THEN [commandObj EXCEPT !.error = <<"Simulated execution failure">>]
    ELSE [commandObj EXCEPT !.status = "completed",
                            !.result = <<[success |-> TRUE,
                                          message |-> "Command ${command} completed successfully",
                                          executionTime |-> executionTime]>>]

\* executeCommandAsync after its await: the outcome of the simulated run
ExecuteFinish(commandObj, shouldFail, executionTime) ==
  IF shouldFail
    THEN [commandObj EXCEPT !.status = "failed",
                            !.error = <<"Simulated execution failure">>]
    ELSE [commandObj EXCEPT !.status = "completed",
                            !.result = <<[success |-> TRUE,
                                          message |-> "Command ${command} completed successfully",
                                          executionTime |-> executionTime]>>]

\* io.emit('command-update', commandObj);
\* io.to(`instrument-${commandObj.instrumentId}`).emit('command-update', commandObj)
BroadcastCommand(box, commandObj) ==
  IoToEmit(IoEmit(box, "command-update", commandObj),
           Room("instrument", commandObj.instrumentId), "command-update", commandObj)

\* POST /api/control/instruments/:id/command.  elapsed: whether the clock has
\* moved on since it was last read
PostCommand(id, command, parameters, rnd, elapsed) ==
  LET route == "POST /api/control/instruments/:id/command"
      validation == validateCommandParameters(command, parameters)
      t == now + elapsed
      commandId == CommandId(t, rnd)
      commandObj == NewCommand(commandId, id, command, parameters, t)
      executing == ExecuteStart(commandObj)
  IN  IF validation.threw
        THEN /\ res' = [route |-> route, status |-> 500,
                        body |-> [success |-> FALSE, error |-> "Failed to process command",
                                  timestamp |-> Iso(now),
                                  message |-> validation.error]]
             /\ UNCHANGED <<ui, req, upstream, now, cmds, controlCommands, alerts, ingested, sock,
                            rooms, inbox, timers, statusLog>>
      ELSE IF ~validation.valid
        THEN /\ res' = [route |-> route, status |-> 400,
                        body |-> [success |-> FALSE, error |-> validation.error,
                                  timestamp |-> Iso(now)]]
             /\ UNCHANGED <<ui, req, upstream, now, cmds, controlCommands, alerts, ingested, sock,
                            rooms, inbox, timers, statusLog>>
      ELSE            /\ now' = t
           /\ cmds' = Append(cmds, executing)
           /\ controlCommands' =
                [k \in DOMAIN controlCommands \cup {commandId} |->
                   IF k = commandId THEN Len(cmds) + 1 ELSE controlCommands[k]]
           /\ statusLog' = Append(statusLog, <<commandObj.status, executing.status>>)
           /\ timers' = timers \cup {Len(cmds) + 1}
           /\ res' = [route |-> route, status |-> 200,
                      body |-> [success |-> TRUE, commandId |-> commandId,
                                timestamp |-> Iso(t),
                                message |-> "Command queued for execution"]]
           /\ inbox' = BroadcastCommand(inbox, executing)
           /\ UNCHANGED <<ui, req, upstream, alerts, ingested, sock, rooms>>

\* mutant: a command finishes only after the earlier commands of its
\* instrument have finished
TimerFireInOrder(i, shouldFail, executionTime) ==
  /\ i \in timers
  /\ \A j \in timers : j < i => cmds[j].instrumentId # cmds[i].instrumentId
  /\ timers' = timers \ {i}
  /\ LET done == ExecuteFinish(cmds[i], shouldFail, executionTime)
     IN  /\ cmds' = [cmds EXCEPT ![i] = done]
         /\ statusLog' = [statusLog EXCEPT ![i] = Append(@, done.status)]
         /\ inbox' = BroadcastCommand(inbox, done)
  /\ now' = Max(now, cmds[i].timestamp + 1)
  /\ UNCHANGED <<ui, req, upstream, controlCommands, alerts, ingested, sock, rooms, res>>

\* the setTimeout of executeCommandAsync fires for the i-th commandObj; at
\* least 1000 ms have passed since it was created
TimerFire(i, shouldFail, executionTime) ==
  /\ i \in timers
  /\ timers' = timers \ {i}
  /\ LET done == ExecuteFinish(cmds[i], shouldFail, executionTime)
     IN  /\ cmds' = [cmds EXCEPT ![i] = done]
         /\ statusLog' = [statusLog EXCEPT ![i] = Append(@, done.status)]
         /\ inbox' = BroadcastCommand(inbox, done)
  /\ now' = Max(now, cmds[i].timestamp + 1)
  /\ UNCHANGED <<ui, req, upstream, controlCommands, alerts, ingested, sock, rooms, res>>

\* GET /api/control/commands/:commandId
GetCommandResponse(commandId) ==
  IF commandId \notin DOMAIN controlCommands
    THEN [route |-> "GET /api/control/commands/:commandId", status |-> 404,
          body |-> [success |-> FALSE, error |-> "Command not found",
                    timestamp |-> Iso(now)]]
    ELSE [route |-> "GET /api/control/commands/:commandId", status |-> 200,
          body |-> [success |-> TRUE, command |-> cmds[controlCommands[commandId]],
                    timestamp |-> Iso(now)]]

GetCommand(commandId) ==
  /\ res' = GetCommandResponse(commandId)
  /\ UNCHANGED <<ui, req, upstream, now, cmds, controlCommands, alerts, ingested, sock, rooms, inbox,
                 timers, statusLog>>

----------------------------------------------------------------------------
(* Alert store *)

\* `${v}` for a string v
Template(v) == v.s

\* mutant: the buffer is never trimmed
UnshiftWithoutPop(buffer, alert) == <<alert>> \o buffer

\* alerts.unshift(alert); if (alerts.length > MAX_ALERTS) alerts.pop()
Unshift(buffer, alert) ==
  LET grown == <<alert>> \o buffer
  IN  IF Len(grown) > MAX_ALERTS THEN SubSeq(grown, 1, Len(grown) - 1) ELSE grown

\* io.emit('anomaly_alert', alert);
\* io.to(`instrument-${alert.instrument_id}`).emit('instrument_alert', alert)
BroadcastAlert(box, alert) ==
  IoToEmit(IoEmit(box, "anomaly_alert", alert),
           Room("instrument", Template(alert.instrument_id)), "instrument_alert", alert)

\* POST /api/alerts with JSON body alert.  The stored object is the body
\* itself; seq stands for its identity (the order of acceptance)
PostAlert(alert) ==
  LET route == "POST /api/alerts"
      stamped == [alert EXCEPT !.timestamp = IF Falsy(@) THEN Iso(now) ELSE @,
                               !.seq = ingested + 1]
  IN  IF Falsy(alert.id) \/ Falsy(alert.instrument_id) \/ Falsy(alert.severity)
        THEN /\ res' = [route |-> route, status |-> 400,
                        body |-> [error |-> "Invalid alert format"]]
             /\ UNCHANGED <<ui, req, upstream, now, cmds, controlCommands, alerts, ingested, sock,
                            rooms, inbox, timers, statusLog>>
        ELSE /\ alerts' = Unshift(alerts, stamped)
             /\ ingested' = ingested + 1
             /\ inbox' = BroadcastAlert(inbox, stamped)
             \* console.log(... alert.severity.toUpperCase() ...) throws on a
             \* severity that is no string; the catch answers 500
             /\ res' = IF alert.severity.t = "string"
                         THEN [route |-> route, status |-> 200,
                               body |-> [success |-> TRUE, alert_id |-> alert.id,
                                         message |-> "Alert received and broadcast"]]
                         ELSE [route |-> route, status |-> 500,
                               body |-> [error |-> "Failed to process alert"]]
             /\ UNCHANGED <<ui, req, upstream, now, cmds, controlCommands, sock, rooms, timers, statusLog>>

\* mutant: the purge leaves the newest alert in the buffer
DeleteAlertsKeepsNewest ==
  /\ alerts' = SubSeq(alerts, 1, Min(1, Len(alerts)))
  /\ res' = [route |-> "DELETE /api/alerts", status |-> 200,
             body |-> [success |-> TRUE,
                       message |-> [template |-> "Cleared ${count} alerts",
                                    count |-> Len(alerts)],
                       timestamp |-> Iso(now)]]
  /\ UNCHANGED <<ui, req, upstream, now, cmds, controlCommands, ingested, sock, rooms, inbox, timers,
                 statusLog>>

\* DELETE /api/alerts
DeleteAlerts ==
  /\ alerts' = <<>>
  /\ res' = [route |-> "DELETE /api/alerts", status |-> 200,
             body |-> [success |-> TRUE,
                       message |-> [template |-> "Cleared ${count} alerts",
                                    count |-> Len(alerts)],
                       timestamp |-> Iso(now)]]
  /\ UNCHANGED <<ui, req, upstream, now, cmds, controlCommands, ingested, sock, rooms, inbox, timers,
                 statusLog>>

----------------------------------------------------------------------------
(* Structured proxy routes.  Strings that the code takes apart are sequences *)
(* of characters                                                             *)

Digits == {"0", "1", "2", "3", "4", "5", "6", "7", "8", "9"}

\* a and b joined by a dot
Dotted(a, b) == a \o <<".">> \o b

DigitValue(d) ==
  CASE d = "0" -> 0 [] d = "1" -> 1 [] d = "2" -> 2 [] d = "3" -> 3 [] d = "4" -> 4
    [] d = "5" -> 5 [] d = "6" -> 6 [] d = "7" -> 7 [] d = "8" -> 8 [] d = "9" -> 9

NaN == [t |-> "NaN"]

\* s.includes(ch)
Includes(s, ch) == \E k \in 1..Len(s) : s[k] = ch

\* s.split(ch)
RECURSIVE Split(_, _)
Split(s, ch) ==
  IF ~Includes(s, ch) THEN <<s>>
  ELSE LET k == CHOOSE k \in 1..Len(s) :
                  s[k] = ch /\ \A j \in 1..(k - 1) : s[j] # ch
       IN  <<SubSeq(s, 1, k - 1)>> \o Split(SubSeq(s, k + 1, Len(s)), ch)

\* /^(\d{1,3}\.){3}\d{1,3}$/.test(s): four runs of one to three digits,
\* separated by dots
ipRegexTest(s) ==
  LET runs == Split(s, ".")
  IN  /\ Len(runs) = 4
      /\ \A g \in 1..4 :
           /\ Len(runs[g]) \in 1..3
           /\ \A k \in 1..Len(runs[g]) : runs[g][k] \in Digits

\* the value of a run of digits
RECURSIVE Decimal(_)
Decimal(ds) ==
  IF ds = <<>> THEN 0
  ELSE 10 * Decimal(SubSeq(ds, 1, Len(ds) - 1)) + DigitValue(ds[Len(ds)])

RECURSIVE LeadingDigits(_)
LeadingDigits(s) ==
  IF s = <<>> \/ Head(s) \notin Digits THEN <<>>
  ELSE <<Head(s)>> \o LeadingDigits(Tail(s))

\* parseInt(s) of a string without leading blanks or a 0x prefix: an
\* optional sign and the leading digits; what follows them is ignored
parseInt(s) ==
  LET signed == s # <<>> /\ Head(s) \in {"-", "+"}
      ds == LeadingDigits(IF signed THEN Tail(s) ELSE s)
  IN  IF ds = <<>> THEN NaN
      ELSE Num(IF signed /\ Head(s) = "-" THEN 0 - Decimal(ds) ELSE Decimal(ds))

\* the routes: what each validates after the IP, and the path it forwards to
ProxyRoutes ==
  { [route |-> "GET /api/proxy/setspeed/:instrumentId/:value",
     check |-> "value", min |-> 500, max |-> 100000,
     path |-> "/DataService/SetSpeed1/"],
    [route |-> "GET /api/proxy/setruntime/:instrumentId/:value",
     check |-> "value", min |-> 1, max |-> 1000,
     path |-> "/DataService/SetRunTime1/"],
    [route |-> "GET /api/proxy/settemperature/:instrumentId/:value",
     check |-> "value", min |-> 0 - 80, max |-> 300,
     path |-> "/DataService/SetTemperature1/"],
    [route |-> "GET /api/proxy/startoperation/:instrumentId",
     check |-> "none", min |-> 0, max |-> 0,
     path |-> "/DataService/StartOperation1"],
    [route |-> "GET /api/proxy/stopoperation/:instrumentId",
     check |-> "none", min |-> 0, max |-> 0,
     path |-> "/DataService/StopOperation1"],
    [route |-> "GET /api/vi-cell/system-info/:instrumentId",
     check |-> "none", min |-> 0, max |-> 0,
     path |-> "/ViCellBlu/v1/system/info"],
    [route |-> "GET /api/vi-cell/status/:instrumentId",
     check |-> "none", min |-> 0, max |-> 0,
     path |-> "/ViCellBlu/v1/instrument/status"],
    [route |-> "GET /api/vi-cell/results/recent/:instrumentId",
     check |-> "none", min |-> 0, max |-> 0,
     path |-> "/ViCellBlu/v1/results/recent"],
    [route |-> "GET /api/vi-cell/sample/:instrumentId/:sampleId/status",
     check |-> "none", min |-> 0, max |-> 0,
     path |-> "/ViCellBlu/v1/sample/:sampleId/status"],
    [route |-> "GET /api/vi-cell/sample/:instrumentId/:sampleId/results",
     check |-> "none", min |-> 0, max |-> 0,
     path |-> "/ViCellBlu/v1/sample/:sampleId/results"],
    [route |-> "POST /api/vi-cell/sample/:instrumentId/analyze",
     check |-> "sampleId", min |-> 0, max |-> 0,
     path |-> "/ViCellBlu/v1/sample/analyze"],
    [route |-> "GET /api/vi-cell/queue/:instrumentId",
     check |-> "none", min |-> 0, max |-> 0,
     path |-> "/ViCellBlu/v1/instrument/queue"] }

NoRequest == [route |-> ""]

\* instrumentId.includes('-') ? instrumentId.split('-')[0] : instrumentId
InstrumentIp(instrumentId) ==
  IF Includes(instrumentId, "-") THEN Split(instrumentId, "-")[1] ELSE instrumentId

\* One structured route handling the request r (without an x-target-url
\* header).  The handler awaits the instrument's answer: statusCode is the
\* status it answers with, 0 when axios rejects (no answer, or a status of
\* 500 and above).  Nothing the handler touches is shared with another
\* handler, so the two halves are taken as one step.
\* mutant: every status below 400 counts as a success
IsSuccessBelow400(status) == status \in 200..399

\* isSuccess = response.status >= 200 && response.status < 300
IsSuccess(status) == status \in 200..299

\* error.message of a rejected axios call: no response, or a response whose
\* status validateStatus refuses
AxiosError(statusCode) ==
  IF statusCode = 0 THEN [template |-> "connect ECONNREFUSED"]
  ELSE [template |-> "Request failed with status code ${status}", status |-> statusCode]

\* mutant: axios resolves whatever the status
validateStatusAny(status) == TRUE

\* validateStatus of the axios call: a status of 500 or above rejects
validateStatus(status) == status < 500

\* a route handling the request r; statusCode is the status the instrument
\* answers with, 0 when it gives no response (refused, timed out)
ProxyRoute(r, statusCode) ==
  LET instrumentIp == InstrumentIp(r.instrumentId)
      parsed == parseInt(r.value)
      answer(status, body) == [route |-> r.route.route, status |-> status,
                               body |-> body @@ [timestamp |-> Iso(now)]]
  IN  /\ req' = NoRequest
      /\ IF ~ipRegexTest(instrumentIp)
           THEN /\ res' = answer(400, [success |-> FALSE,
                                       error |-> "Invalid instrument ID or IP address format",
                                       instrumentId |-> r.instrumentId])
                /\ UNCHANGED upstream
         ELSE IF r.route.check = "value"
                 /\ (parsed = NaN \/ JsLess(parsed, r.route.min)
                                  \/ JsGreater(parsed, r.route.max))
           THEN /\ res' = answer(400, [success |-> FALSE, error |-> "value out of range"])
                /\ UNCHANGED upstream
         ELSE IF r.route.check = "sampleId" /\ Falsy(r.sampleId)
           THEN /\ res' = answer(400, [success |-> FALSE, error |-> "Sample ID is required"])
                /\ UNCHANGED upstream
         ELSE /\ upstream' = upstream + 1
              /\ res' = IF statusCode = 0 \/ ~validateStatus(statusCode)
                          THEN answer(500, [success |-> FALSE, error |-> "Failed",
                                            message |-> AxiosError(statusCode)])
                          ELSE answer(200, [success |-> IsSuccess(statusCode),
                                            instrumentIp |-> instrumentIp,
                                            statusCode |-> statusCode])
      /\ UNCHANGED <<ui, now, cmds, controlCommands, alerts, ingested, sock, rooms,
                     inbox, timers, statusLog>>

----------------------------------------------------------------------------
(* Queries of the alert store and of the command queue *)

\* a string that the code takes apart, as the sequence of its characters
Text(chars) == [t |-> "string", chars |-> chars]

\* the limit of a query: req.query.limit is a string, or absent (default 50)
LimitNum(limit) == IF limit = Undefined THEN Num(50) ELSE parseInt(limit.chars)

\* mutant: the array is not truncated
SliceNothing(array, end) == array

\* array.slice(0, end): NaN counts as 0, a negative end counts from the back
Slice(array, end) ==
  LET stop == IF end = NaN THEN 0
              ELSE IF end.n < 0 THEN Max(Len(array) + end.n, 0)
              ELSE Min(end.n, Len(array))
  IN  SubSeq(array, 1, stop)

\* array.filter(alert => alert[field] === value), skipped for a falsy value
FilterBy(array, field, value) ==
  IF Falsy(value) THEN array
  ELSE SelectSeq(array, LAMBDA alert : alert[field] = value)

\* GET /api/alerts?instrument_id=&severity=&limit=
GetAlertsResponse(instrument_id, severity, limit) ==
  LET filteredAlerts ==
        Slice(FilterBy(FilterBy(alerts, "instrument_id", instrument_id),
                       "severity", severity),
              LimitNum(limit))
  IN  [route |-> "GET /api/alerts", status |-> 200,
       body |-> [success |-> TRUE, count |-> Len(filteredAlerts), timestamp |-> Iso(now),
                 total_alerts |-> Len(alerts), alerts |-> filteredAlerts]]

GetAlerts(instrument_id, severity, limit) ==
  /\ res' = GetAlertsResponse(instrument_id, severity, limit)
  /\ UNCHANGED <<ui, req, upstream, now, cmds, controlCommands, alerts, ingested,
                 sock, rooms, inbox, timers, statusLog>>

Severities == {"critical", "high", "medium", "low"}

\* mutant: only the critical bucket is counted
BySeverityCriticalOnly(array) ==
  [s \in Severities |->
     IF s = "critical"
       THEN Cardinality({k \in 1..Len(array) : array[k].severity = Str(s)})
       ELSE 0]

\* stats.by_severity: only the four own keys are counted
BySeverity(array) ==
  [s \in Severities |->
     Cardinality({k \in 1..Len(array) : array[k].severity = Str(s)})]

\* stats.by_instrument after alerts.forEach: one key per instrument id
\* that occurs.  A key that Object.prototype defines reads as truthy before
\* it is set, so it is not initialised to 0 and the first ++ makes it NaN;
\* NaN is falsy, so the second alert of that key restarts the count at 0
ByInstrument(array) ==
  LET keys == {Template(array[k].instrument_id) : k \in 1..Len(array)}
      n(key) == Cardinality({k \in 1..Len(array) :
                               Template(array[k].instrument_id) = key})
  IN  [key \in keys |->
         IF key \in ObjectPrototypeKeys
           THEN IF n(key) = 1 THEN NaN ELSE Num(n(key) - 1)
           ELSE Num(n(key))]

\* new Date(timestamp) > new Date(now - age): an invalid date compares false
NewerThan(timestamp, age) ==
  timestamp.t = "string" /\ "ms" \in DOMAIN timestamp /\ timestamp.ms > now - age

\* GET /api/alerts/stats
GetAlertStatsResponse ==
  [route |-> "GET /api/alerts/stats", status |-> 200,
   body |-> [success |-> TRUE, timestamp |-> Iso(now),
             stats |-> [total |-> Len(alerts),
                        by_severity |-> BySeverity(alerts),
                        by_instrument |-> ByInstrument(alerts),
                        recent_count_1h |->
                          Cardinality({k \in 1..Len(alerts) :
                                         NewerThan(alerts[k].timestamp, 3600000)}),
                        recent_count_24h |->
                          Cardinality({k \in 1..Len(alerts) :
                                         NewerThan(alerts[k].timestamp, 86400000)})]]]

GetAlertStats ==
  /\ res' = GetAlertStatsResponse
  /\ UNCHANGED <<ui, req, upstream, now, cmds, controlCommands, alerts, ingested,
                 sock, rooms, inbox, timers, statusLog>>

\* Array.from(controlCommands.values()): a Map iterates its keys in the order
\* of their first insertion, and a key set again keeps its place and holds
\* the object stored last
MapValues ==
  LET first == SelectSeq([i \in 1..Len(cmds) |-> i],
                         LAMBDA i : \A j \in 1..(i - 1) : cmds[j].id # cmds[i].id)
  IN  [n \in 1..Len(first) |-> cmds[controlCommands[cmds[first[n]].id]]]

\* array.sort((a, b) => new Date(b.timestamp) - new Date(a.timestamp)): the
\* sort is stable, elements of one timestamp keep their order
SortNewestFirst(array) ==
  LET before(i, j) == \/ array[i].timestamp > array[j].timestamp
                      \/ array[i].timestamp = array[j].timestamp /\ i < j
      rank(i) == 1 + Cardinality({j \in 1..Len(array) : before(j, i)})
  IN  [r \in 1..Len(array) |-> array[CHOOSE i \in 1..Len(array) : rank(i) = r]]

\* GET /api/control/instruments/:id/commands
ListCommandsResponse(id, limit) ==
  LET instrumentCommands ==
        Slice(SortNewestFirst(SelectSeq(MapValues, LAMBDA cmd : cmd.instrumentId = id)),
              LimitNum(limit))
  IN  [route |-> "GET /api/control/instruments/:id/commands", status |-> 200,
       body |-> [success |-> TRUE, count |-> Len(instrumentCommands),
                 timestamp |-> Iso(now),
                 commands |-> instrumentCommands]]

ListCommands(id, limit) ==
  /\ res' = ListCommandsResponse(id, limit)
  /\ UNCHANGED <<ui, req, upstream, now, cmds, controlCommands, alerts, ingested, sock, rooms, inbox,
                 timers, statusLog>>

----------------------------------------------------------------------------
(* socket.io handlers *)

\* io.on('connection')
Connect(c) ==
  /\ sock[c] = "new"
  /\ sock' = [sock EXCEPT ![c] = "open"]
  /\ UNCHANGED <<ui, req, upstream, now, cmds, controlCommands, alerts, ingested, rooms, inbox,
                 timers, statusLog, res>>

\* socket.on('disconnect'): socket.io has removed the socket from its rooms
Disconnect(c) ==
  /\ sock[c] = "open"
  /\ sock' = [sock EXCEPT ![c] = "closed"]
  /\ rooms' = [rooms EXCEPT ![c] = {}]
  /\ inbox' = [inbox EXCEPT ![c] = <<>>]
  /\ UNCHANGED <<ui, req, upstream, now, cmds, controlCommands, alerts, ingested, timers, statusLog, res>>

\* socket.on('subscribe-instrument')
SubscribeInstrument(c, instrumentId) ==
  /\ sock[c] = "open"
  /\ rooms' = [rooms EXCEPT ![c] = @ \cup {Room("instrument", instrumentId)}]
  /\ inbox' = SocketEmit(inbox, c, "subscription-confirmed",
                         [instrumentId |-> instrumentId])
  /\ UNCHANGED <<ui, req, upstream, now, cmds, controlCommands, alerts, ingested, sock, timers,
                 statusLog, res>>

\* the ten newest commands of the instrument
RecentCommands(instrumentId) ==
  Slice(SortNewestFirst(SelectSeq(MapValues,
                                  LAMBDA cmd : cmd.instrumentId = instrumentId)),
        Num(10))

\* socket.on('subscribe-commands')
SubscribeCommands(c, instrumentId) ==
  /\ sock[c] = "open"
  /\ rooms' = [rooms EXCEPT ![c] = @ \cup {Room("commands", instrumentId)}]
  /\ inbox' = SocketEmit(
                SocketEmit(inbox, c, "commands-history",
                           [instrumentId |-> instrumentId,
                            commands |-> RecentCommands(instrumentId),
                            count |-> Len(RecentCommands(instrumentId))]),
                c, "commands-subscription-confirmed",
                [message |-> "Subscribed to command updates",
                 instrumentId |-> instrumentId,
                 recent_commands_count |-> Len(RecentCommands(instrumentId))])
  /\ UNCHANGED <<ui, req, upstream, now, cmds, controlCommands, alerts, ingested, sock, timers,
                 statusLog, res>>

\* mutant: the whole buffer is sent
RecentAlertsUnsliced == alerts

\* alerts.slice(0, 10)
RecentAlerts == SubSeq(alerts, 1, Min(10, Len(alerts)))

\* socket.on('subscribe-alerts')
SubscribeAlerts(c) ==
  /\ sock[c] = "open"
  /\ rooms' = [rooms EXCEPT ![c] = @ \cup {Room("alerts", "")}]
  /\ inbox' = SocketEmit(
                SocketEmit(inbox, c, "alerts-history",
                           [alerts |-> RecentAlerts, count |-> Len(RecentAlerts)]),
                c, "alerts-subscription-confirmed",
                [recent_alerts_count |-> Len(RecentAlerts)])
  /\ UNCHANGED <<ui, req, upstream, now, cmds, controlCommands, alerts, ingested, sock, timers,
                 statusLog, res>>

----------------------------------------------------------------------------
(* The middleware chain: the routes and middlewares in the order in which    *)
(* server.js registers them                                                  *)

HealthResponse ==
  [route |-> "GET /health", status |-> 200,
   body |-> [status |-> "healthy", service |-> "connected-labs-gateway",
             timestamp |-> Iso(now)]]

\* createProxyMiddleware({target})(req, res, next): the answer of the target
\* is passed on; statusCode 0 is a target that gives none (onError)
GenericProxyResponse(statusCode) ==
  IF statusCode = 0
    THEN [route |-> "generic proxy", status |-> 500,
          body |-> [error |-> "Proxy error", message |-> "connect ECONNREFUSED"]]
    ELSE [route |-> "generic proxy", status |-> statusCode, body |-> [proxied |-> TRUE]]

\* one inbound request through the chain: app.get('/health'), then the
\* legacy proxy middleware, then the routes registered after it; a path
\* that no route matches is answered 404 by express
Dispatch(request, statusCode, rnd) ==
  IF request.method = "GET" /\ request.path = "/health"
    THEN /\ res' = HealthResponse
         /\ UNCHANGED <<ui, req, upstream, now, cmds, controlCommands, alerts, ingested, sock,
                        rooms, inbox, timers, statusLog>>
  ELSE IF ~Falsy(request.target)
    THEN /\ upstream' = upstream + 1
         /\ res' = GenericProxyResponse(statusCode)
         /\ UNCHANGED <<ui, req, now, cmds, controlCommands, alerts, ingested, sock, rooms,
                        inbox, timers, statusLog>>
  ELSE IF request.method = "POST" /\ request.path = "/api/alerts"
    THEN PostAlert(request.body)
  ELSE IF request.method = "DELETE" /\ request.path = "/api/alerts"
    THEN DeleteAlerts
  ELSE IF request.method = "GET" /\ request.path = "/api/alerts"
    THEN GetAlerts(Undefined, Undefined, Undefined)
  ELSE IF request.method = "POST" /\ request.path = "/api/control/instruments/i1/command"
    THEN PostCommand("i1", request.body.command, request.body.parameters, rnd, 1)
  ELSE /\ res' = [route |-> "", status |-> 404, body |-> [success |-> FALSE]]
       /\ UNCHANGED <<ui, req, upstream, now, cmds, controlCommands, alerts, ingested, sock,
                      rooms, inbox, timers, statusLog>>

----------------------------------------------------------------------------
(* The browser: the network scanner of App.tsx.  Each action is one callback *)
(* of the page's event loop                                                  *)

DigitChar(d) == CHOOSE c \in Digits : DigitValue(c) = d

\* `${n}` for a number n >= 0
RECURSIVE NumberChars(_)
NumberChars(n) ==
  IF n < 10 THEN <<DigitChar(n)>> ELSE NumberChars(n \div 10) \o <<DigitChar(n % 10)>>

\* the candidate hosts: 'localhost', then the addresses 10.122.72.10 onwards
ips ==
  <<<<"l", "o", "c", "a", "l", "h", "o", "s", "t">>>>
  \o [i \in 1..MaxHosts |->
        Dotted(Dotted(<<"1", "0">>, <<"1", "2", "2">>),
               Dotted(<<"7", "2">>, NumberChars(9 + i)))]

\* a probe that has not settled
Pending == [settled |-> FALSE, result |-> <<>>]

\* what a probe meets: fetch or response.text() throws, or the answer parses
\* to the text of its SystemModel element ('' when it has none)
ProbeOutcomes ==
  { [threw |-> TRUE, modelName |-> ""] }
  \cup { [threw |-> FALSE, modelName |-> m] : m \in {"", "PreparatoryExtended", "Avanti"} }

\* the value the probe of ip resolves to: an instrument, or null (<<>>)
ProbeResult(ip, outcome, t) ==
  LET displayName == IF outcome.modelName = "PreparatoryExtended" THEN "Optima XPN"
                     ELSE outcome.modelName
  IN  IF ~outcome.threw /\ displayName # ""
        THEN <<[ip |-> ip, model |-> displayName, id |-> ip \o <<"-">> \o NumberChars(t)]>>
        ELSE <<>>

\* the maxAlerts property of the AlertsPanel, at its default
maxAlerts == 50

\* the AlertsPanel after its effect has run: the list is empty, the socket is
\* being opened and the backup fetch is on its way.  live is the set of the
\* alerts (by seq) whose 'anomaly_alert' the panel has handled
PanelMounted ==
  [alerts |-> <<>>, isConnected |-> FALSE, fetch |-> [state |-> "sent"], live |-> {}]

\* the page as first rendered
Mounted ==
  [isScanning |-> FALSE, foundInstruments |-> <<>>,
   probes |-> [k \in 1..Len(ips) |-> Pending], scans |-> 0,
   panel |-> PanelMounted]

\* mutant: the list of the previous scan stays while the new scan runs
scanNetworkKeepsList ==
  /\ ~ui.isScanning
  /\ ui' = [ui EXCEPT !.isScanning = TRUE,
                      !.probes = [k \in 1..Len(ips) |-> Pending],
                      !.scans = @ + 1]
  /\ UNCHANGED <<now, cmds, controlCommands, alerts, ingested, sock, rooms, inbox, timers,
                 statusLog, req, upstream, res>>

\* scanNetwork up to its await: the button is disabled while isScanning
scanNetwork ==
  /\ ~ui.isScanning
  /\ ui' = [ui EXCEPT !.isScanning = TRUE,
                      !.foundInstruments = <<>>,
                      !.probes = [k \in 1..Len(ips) |-> Pending],
                      !.scans = @ + 1]
  /\ UNCHANGED <<now, cmds, controlCommands, alerts, ingested, sock, rooms, inbox, timers,
                 statusLog, req, upstream, res>>

\* the probe of ips[k] settles, elapsed after the last reading of the clock
ProbeSettle(k, outcome, elapsed) ==
  /\ ui.isScanning
  /\ ~ui.probes[k].settled
  /\ now' = now + elapsed
  /\ ui' = [ui EXCEPT !.probes[k] =
                        [settled |-> TRUE, result |-> ProbeResult(ips[k], outcome, now')]]
  /\ UNCHANGED <<cmds, controlCommands, alerts, ingested, sock, rooms, inbox, timers,
                 statusLog, req, upstream, res>>

\* results.filter(instrument => instrument !== null), in the order of ips
ValidInstruments(probes) ==
  LET found == SelectSeq([k \in 1..Len(probes) |-> k],
                         LAMBDA k : probes[k].result # <<>>)
  IN  [n \in 1..Len(found) |-> probes[found[n]].result[1]]

\* scanNetwork after await Promise.all(promises)
ScanSettled ==
  /\ ui.isScanning
  /\ \A k \in 1..Len(ips) : ui.probes[k].settled
  /\ ui' = [ui EXCEPT !.foundInstruments = ValidInstruments(ui.probes),
                      !.isScanning = FALSE]
  /\ UNCHANGED <<now, cmds, controlCommands, alerts, ingested, sock, rooms, inbox, timers,
                 statusLog, req, upstream, res>>

\* InstrumentControl of a found instrument sets a speed: a request to the
\* setspeed route with the instrument's id
SetSpeed(instrument, value) ==
  /\ req = NoRequest
  /\ req' = [route |-> CHOOSE rt \in ProxyRoutes :
                         rt.route = "GET /api/proxy/setspeed/:instrumentId/:value",
             instrumentId |-> instrument.id, value |-> value, sampleId |-> Undefined]
  /\ UNCHANGED <<now, cmds, controlCommands, alerts, ingested, sock, rooms, inbox, timers,
                 statusLog, upstream, res, ui>>

----------------------------------------------------------------------------
(* The browser: the AlertsPanel.  Its socket is one of the gateway's clients; *)
(* inbox[PanelSocket] holds the events on their way to the panel, in order    *)

PanelSocket == "s1"

\* newSocket.on('connect'): the panel emits 'subscribe-alerts'
PanelOnConnect ==
  /\ sock[PanelSocket] = "open"
  /\ ~ui.panel.isConnected
  /\ ui' = [ui EXCEPT !.panel.isConnected = TRUE]
  /\ UNCHANGED <<now, cmds, controlCommands, alerts, ingested, sock, rooms, inbox, timers,
                 statusLog, req, upstream, res>>

\* newSocket.on('anomaly_alert'): [alert, ...prev].slice(0, maxAlerts)
OnAnomalyAlert(prev, alert) == Slice(<<alert>> \o prev, Num(maxAlerts))

\* the next event on the panel's socket reaches its handler, after the
\* socket's 'connect'; an event without a handler is dropped
PanelOnEvent ==
  /\ ui.panel.isConnected
  /\ inbox[PanelSocket] # <<>>
  /\ inbox' = [inbox EXCEPT ![PanelSocket] = Tail(@)]
  /\ LET message == Head(inbox[PanelSocket])
     IN  ui' = IF message.event = "alerts-history"
                 THEN [ui EXCEPT !.panel.alerts = message.data.alerts]
               ELSE IF message.event = "anomaly_alert"
                 THEN [ui EXCEPT !.panel.alerts = OnAnomalyAlert(@, message.data),
                                 !.panel.live = @ \cup {message.data.seq}]
               ELSE ui
  /\ UNCHANGED <<now, cmds, controlCommands, alerts, ingested, sock, rooms, timers,
                 statusLog, req, upstream, res>>

\* the gateway answers the panel's fetch of /api/alerts?limit=${maxAlerts};
\* the response is on its way to the browser
FetchAnswered ==
  /\ ui.panel.fetch.state = "sent"
  /\ res' = GetAlertsResponse(Undefined, Undefined, Text(NumberChars(maxAlerts)))
  /\ ui' = [ui EXCEPT !.panel.fetch = [state |-> "answered", data |-> res'.body]]
  /\ UNCHANGED <<now, cmds, controlCommands, alerts, ingested, sock, rooms, inbox, timers,
                 statusLog, req, upstream>>

\* .then(data => { if (data.success && data.alerts) setAlerts(data.alerts) })
FetchResolved ==
  /\ ui.panel.fetch.state = "answered"
  /\ LET data == ui.panel.fetch.data
     IN  ui' = [ui EXCEPT !.panel.fetch = [state |-> "done"],
                          !.panel.alerts = IF data.success THEN data.alerts ELSE @]
  /\ UNCHANGED <<now, cmds, controlCommands, alerts, ingested, sock, rooms, inbox, timers,
                 statusLog, req, upstream, res>>

\* .catch(err => console.error(...)): the request did not reach the gateway
FetchFailed ==
  /\ ui.panel.fetch.state = "sent"
  /\ ui' = [ui EXCEPT !.panel.fetch = [state |-> "done"]]
  /\ UNCHANGED <<now, cmds, controlCommands, alerts, ingested, sock, rooms, inbox, timers,
                 statusLog, req, upstream, res>>

----------------------------------------------------------------------------
(* The gateway *)

NoResponse == [route |-> "", status |-> 0, body |-> [success |-> FALSE]]

Booted ==
  /\ now = 0
  /\ cmds = <<>>
  /\ controlCommands = <<>>
  /\ alerts = <<>>
  /\ ingested = 0
  /\ sock = [c \in Clients |-> "new"]
  /\ rooms = [c \in Clients |-> {}]
  /\ inbox = [c \in Clients |-> <<>>]
  /\ timers = {}
  /\ statusLog = <<>>
  /\ upstream = 0
  /\ res = NoResponse
  /\ ui = Mounted

Init == Booted /\ req = NoRequest

\* request bodies of POST /api/control/instruments/:id/command
CommandBodies ==
  { [command |-> "start", parameters |-> Object([value |-> Undefined])],
    [command |-> "reboot", parameters |-> Object([value |-> Undefined])],
    [command |-> "set_temperature", parameters |-> Object([value |-> Undefined])],
    [command |-> "set_temperature", parameters |-> Object([value |-> Num(301)])],
    [command |-> "set_pressure", parameters |-> Object([value |-> Num(-1)])],
    [command |-> "set_temperature", parameters |-> Null],
    [command |-> "constructor", parameters |-> Object([value |-> Undefined])] }

\* command ids a client may ask for
CommandIds == {CommandId(t, rnd) : t \in 0..1, rnd \in RandomSuffixes}

\* request bodies of POST /api/alerts
Alert(id, instrument_id, severity, description, timestamp) ==
  [id |-> id, instrument_id |-> instrument_id, severity |-> severity,
   description |-> description, timestamp |-> timestamp, seq |-> 0]

AlertBodies ==
  { Alert(id, instrument_id, severity, Str("spike"), Undefined) :
      id \in {Undefined, Str(""), Str("a1")},
      instrument_id \in {Undefined, Str("i1"), Str("i2")},
      severity \in {Undefined, Str("critical")} }
  \cup { Alert(Str("a1"), Str("i1"), Num(3), Undefined, Iso(0)) }

\* POST /api/control/instruments/:id/command for the instruments ids, with
\* the bodies and the random suffixes given
SubmitStep(ids, bodies, rnds) ==
  \E id \in ids, b \in bodies, rnd \in rnds, elapsed \in 0..1 :
    /\ Len(cmds) < MaxCmds
    /\ PostCommand(id, b.command, b.parameters, rnd, elapsed)

TimerStep ==
  \E i \in 1..Len(cmds), shouldFail \in BOOLEAN, executionTime \in ExecutionTimes :
    TimerFire(i, shouldFail, executionTime)

QueryStep == \E commandId \in CommandIds : GetCommand(commandId)

\* POST /api/alerts with the bodies given, at most max of them accepted
IngestStep(bodies, max) == \E a \in bodies : ingested < max /\ PostAlert(a)

\* connections of the clients cs
ConnectStep(cs) ==
  \/ \E c \in cs : Connect(c)
  \/ \E c \in cs : Disconnect(c)

\* each client sends a subscription at most once per connection
SubscribeInstrumentStep(cs, ids) ==
  \E c \in cs, i \in ids :
    Room("instrument", i) \notin rooms[c] /\ SubscribeInstrument(c, i)

SubscribeAlertsStep(cs) ==
  \E c \in cs : Room("alerts", "") \notin rooms[c] /\ SubscribeAlerts(c)

\* The gateway's HTTP surface: the command queue and the alert store
Next ==
  \/ SubmitStep({"i1"}, CommandBodies, RandomSuffixes)
  \/ TimerStep
  \/ QueryStep
  \/ IngestStep({a \in AlertBodies : a.id = Str("a1") /\ a.instrument_id = Str("i1")},
                MaxIngest)
  \/ DeleteAlerts

Spec == Init /\ [][Next]_vars

\* The same surface with one random suffix and one alert body of each kind;
\* every armed timer fires (the event loop runs every due setTimeout)
LiveAlerts ==
  { Alert(Str("a1"), Str("i1"), severity, Str("spike"), Iso(0)) :
      severity \in {Undefined, Str("critical")} }

NextLive ==
  \/ SubmitStep({"i1"}, {b \in CommandBodies : b.command \in {"start", "reboot"}},
                {"k3x"})
  \/ TimerStep
  \/ QueryStep
  \/ IngestStep(LiveAlerts, MaxIngest)
  \/ DeleteAlerts

LiveSpec ==
  /\ Init
  /\ [][NextLive]_vars
  /\ \A i \in 1..MaxCmds :
       WF_vars(\E shouldFail \in BOOLEAN, executionTime \in ExecutionTimes :
                 TimerFire(i, shouldFail, executionTime))

\* The command queue and a client listening to it
NextQueue ==
  \/ SubmitStep(Instruments,
                {b \in CommandBodies : b.command \in {"start", "reboot", "constructor"}},
                {"k3x"})
  \/ TimerStep
  \/ ConnectStep({"s1"})
  \/ SubscribeInstrumentStep({"s1"}, {"i1"})

SpecQueue == Init /\ [][NextQueue]_vars

\* The alert store and the clients listening to it
NextFeed ==
  \/ IngestStep(AlertBodies, MaxIngest)
  \/ ConnectStep(Clients)
  \/ SubscribeInstrumentStep(Clients, {"i1"})
  \/ SubscribeAlertsStep(Clients)

SpecFeed == Init /\ [][NextFeed]_vars

\* The alert store filled beyond its capacity
NextFill ==
  \/ IngestStep(LiveAlerts, MaxFill)
  \/ DeleteAlerts

SpecFill == Init /\ [][NextFill]_vars

\* A client connecting and subscribing to the alert feed while alerts arrive
NextHistory ==
  \/ IngestStep({a \in LiveAlerts : a.severity = Str("critical")}, MaxHistory)
  \/ ConnectStep({"s1"})
  \/ SubscribeAlertsStep({"s1"})
  \/ DeleteAlerts

SpecHistory == Init /\ [][NextHistory]_vars


\* instrumentId path parameters: dotted heads of three to five runs (empty,
\* of digits, of four digits, of a letter), each followed by nothing or by a
\* dashed tail
Octets == { <<>>, <<"7">>, <<"2", "5", "6">>, <<"x">> }

\* four runs joined by dots
Quads(octets) ==
  { Dotted(Dotted(a, b), Dotted(c, d)) : a \in octets, b \in octets,
                                         c \in octets, d \in octets }

Heads(octets) ==
  Quads(octets)
  \cup { Dotted(Dotted(<<"7">>, <<"7">>), Dotted(<<"7">>, <<"1", "2", "3", "4">>)),
         Dotted(<<"7">>, Dotted(<<"7">>, <<"7">>)),
         Dotted(Dotted(<<"7">>, <<"7">>), Dotted(<<"7">>, Dotted(<<"7">>, <<"7">>))) }

Tails == { <<>>, <<"-">>, <<"-", "5">>, <<"-", "x">>, <<"-", "5", "-", "5">> }

InstrumentIds(octets) == { h \o t : h \in Heads(octets), t \in Tails }

\* the :value path parameter
Values == { <<"0">>, <<"1", "0", "0", "0">>, <<"7", "x">>, <<"x">> }

\* the answers of an instrument: none (0), or an HTTP status
UpstreamStatuses == {0, 200, 299, 300, 404, 499, 500, 503}

\* requests to the structured routes with the instrumentIds given
ProxyRequests(ids) ==
  UNION { { [route |-> rt, instrumentId |-> id, value |-> v, sampleId |-> sid] :
              id \in ids,
              v \in IF rt.check = "value" THEN Values ELSE {<<>>},
              sid \in IF rt.check = "sampleId" THEN {Undefined, Str("S1")}
                                               ELSE {Undefined} } :
          rt \in ProxyRoutes }

ProxyStep ==
  /\ req # NoRequest
  /\ \E statusCode \in UpstreamStatuses : ProxyRoute(req, statusCode)

\* One request to a structured route, received and then handled
InitProxy == Booted /\ req \in ProxyRequests(InstrumentIds(Octets))

NextProxy == ProxyStep

SpecProxy == InitProxy /\ [][NextProxy]_vars

\* alerts of two instruments and two severities, and one without an id
StoreAlerts ==
  { Alert(id, Str(instrument_id), Str(severity), Str("spike"), Undefined) :
      id \in {Str("a1")}, instrument_id \in Instruments,
      severity \in {"critical", "low"} }
  \cup { Alert(Undefined, Str("i1"), Str("critical"), Str("spike"), Undefined) }

\* values of the limit query parameter: absent, "1", "0", "-1", "x"
Limits ==
  { Undefined, Text(<<"1">>), Text(<<"0">>), Text(<<"-", "1">>), Text(<<"x">>) }

\* values of the instrument_id and severity query parameters
QueryInstruments == {Undefined, Str(""), Str("i1")}
QuerySeverities == {Undefined, Str("critical")}

\* GET /api/alerts with the filters and limits given
QueryAlertsStep(ids, severities, limits) ==
  \E instrument_id \in ids, severity \in severities, limit \in limits :
    GetAlerts(instrument_id, severity, limit)

\* The alert store and its queries
NextQuery ==
  \/ IngestStep(StoreAlerts, MaxIngest)
  \/ DeleteAlerts
  \/ QueryAlertsStep(QueryInstruments, QuerySeverities, Limits)
  \/ GetAlertStats

SpecQuery == Init /\ [][NextQuery]_vars

\* The alert store purged under its readers: a query, the statistics and a
\* subscriber, with a command in the queue
NextPurge ==
  \/ IngestStep({a \in StoreAlerts : a.instrument_id = Str("i1")}, MaxIngest)
  \/ DeleteAlerts
  \/ QueryAlertsStep({Undefined}, QuerySeverities, {Undefined})
  \/ GetAlertStats
  \/ ConnectStep({"s1"})
  \/ SubscribeAlertsStep({"s1"})
  \/ \E b \in {b \in CommandBodies : b.command = "start"} :
       /\ Len(cmds) < MaxCmds
       /\ PostCommand("i1", b.command, b.parameters, "k3x", 0)

SpecPurge == Init /\ [][NextPurge]_vars

\* Statistics of a buffer that fills up: alerts of one kind until the buffer
\* is one short of MAX_ALERTS, then alerts of several severities, purges and
\* statistics
MixedAlerts ==
  { Alert(Str("a1"), Str("i1"), Str(severity), Str("spike"), Iso(0)) :
      severity \in {"critical", "low", "info"} }

NextStats ==
  \/ /\ ingested < MAX_ALERTS - 1
     /\ PostAlert(Alert(Str("a1"), Str("i1"), Str("critical"), Str("spike"), Iso(0)))
  \/ ingested >= MAX_ALERTS - 1 /\ IngestStep(MixedAlerts, MaxFill)
  \/ ingested >= MAX_ALERTS - 1 /\ DeleteAlerts
  \/ GetAlertStats

SpecStats == Init /\ [][NextStats]_vars

\* The command queue and its listing: submissions that may fall into one
\* millisecond, timers and listings
ListLimits == {Undefined, Text(<<"1">>)}

ListStep(ids, limits) == \E id \in ids, limit \in limits : ListCommands(id, limit)

NextList ==
  \/ SubmitStep(Instruments, {b \in CommandBodies : b.command = "start"}, RandomSuffixes)
  \/ TimerStep
  \/ ListStep(Instruments, ListLimits)

SpecList == Init /\ [][NextList]_vars

\* Submissions of every command name with parameters at, inside and outside
\* the ranges, with a value that is no number, and with no value
ParameterBodies ==
  { [command |-> command, parameters |-> Object([value |-> value])] :
      command \in {"set_temperature", "set_pressure", "set_speed"},
      value \in {Undefined, Num(-81), Num(-80), Num(-1), Num(0), Num(300), Num(301),
                 Num(1000), Num(1001), Str("hot")} }
  \cup { [command |-> command, parameters |-> Object([value |-> Undefined])] :
           command \in {"start", "stop"} }

NextValidate ==
  \/ SubmitStep({"i1"}, ParameterBodies, {"k3x"})
  \/ QueryStep

SpecValidate == Init /\ [][NextValidate]_vars

\* Inbound requests with and without an x-target-url header
Inbound(method, path, target, body) ==
  [method |-> method, path |-> path, target |-> target, body |-> body]

InboundRequests ==
  { Inbound(mp[1], mp[2], target, mp[3]) :
      mp \in { <<"GET", "/health", Undefined>>,
               <<"GET", "/api/alerts", Undefined>>,
               <<"DELETE", "/api/alerts", Undefined>>,
               <<"GET", "/unknown", Undefined>>,
               <<"POST", "/api/alerts",
                 Alert(Str("a1"), Str("i1"), Str("critical"), Str("spike"), Undefined)>>,
               <<"POST", "/api/alerts",
                 Alert(Str("a1"), Str("i1"), Undefined, Str("spike"), Undefined)>>,
               <<"POST", "/api/control/instruments/i1/command",
                 [command |-> "start", parameters |-> Object([value |-> Undefined])]>> },
      target \in {Undefined, Str(""), Str("http://10.0.0.5:8080")} }

InboundStep ==
  \E request \in InboundRequests, statusCode \in {0, 200, 404}, rnd \in RandomSuffixes :
    /\ Len(cmds) < MaxCmds
    /\ ingested < MaxIngest
    /\ upstream < MaxProxied
    /\ Dispatch(request, statusCode, rnd)

NextInbound ==
  \/ InboundStep
  \/ TimerStep

SpecInbound == Init /\ [][NextInbound]_vars

\* Network scans whose probes settle after the delays given
ScanStep(delays) ==
  \/ ui.scans < MaxScans /\ scanNetwork
  \/ \E k \in 1..Len(ips), outcome \in ProbeOutcomes, elapsed \in delays :
       ProbeSettle(k, outcome, elapsed)
  \/ ScanSettled

NextScan == ScanStep(0..1)

SpecScan == Init /\ [][NextScan]_vars

\* Network scans, and speed commands for the instruments found
SetSpeedStep ==
  \E n \in 1..Len(ui.foundInstruments) :
    upstream < MaxProxied /\
    SetSpeed(ui.foundInstruments[n], <<"1", "0", "0", "0">>)

NextControl ==
  \/ ScanStep({1})
  \/ SetSpeedStep
  \/ ProxyStep

SpecControl == Init /\ [][NextControl]_vars

\* The command queue watched by a client in the instrument's room and by a
\* client subscribed to the instrument's commands
SubscribeCommandsStep(cs, ids) ==
  \E c \in cs, i \in ids :
    Room("commands", i) \notin rooms[c] /\ SubscribeCommands(c, i)

NextUpdates ==
  \/ SubmitStep({"i1"}, {b \in CommandBodies : b.command = "start"}, {"k3x"})
  \/ TimerStep
  \/ ConnectStep(Clients)
  \/ SubscribeInstrumentStep({"s1"}, {"i1"})
  \/ SubscribeCommandsStep({"s2"}, {"i1"})

SpecUpdates == Init /\ [][NextUpdates]_vars

\* The AlertsPanel and the alert store: the panel's socket connects, the
\* gateway handles the 'subscribe-alerts' that the panel's connect handler
\* has emitted, alerts are ingested, and the backup fetch runs its course
PanelAlerts ==
  { Alert(Str("a1"), Str("i1"), Str("critical"), Str("spike"), Undefined) }

NextPanel ==
  \/ Connect(PanelSocket)
  \/ PanelOnConnect
  \/ ui.panel.isConnected /\ SubscribeAlertsStep({PanelSocket})
  \/ IngestStep(PanelAlerts, MaxIngest)
  \/ FetchAnswered
  \/ FetchResolved
  \/ FetchFailed
  \/ PanelOnEvent

SpecPanel == Init /\ [][NextPanel]_vars

----------------------------------------------------------------------------
(* Claims *)

PostCommandRoute == "POST /api/control/instruments/:id/command"
Terminal == {"completed", "failed"}

\* C1 (as claimed): after a submission has been acknowledged and before its
\* execution timer has fired, GET /api/control/commands/<commandId> returns
\* the record with status 'pending'.
C1_PendingRightAfterAck ==
  (/\ res.route = PostCommandRoute
   /\ res.status = 200
   /\ controlCommands[res.body.commandId] \in timers)
  => (/\ GetCommandResponse(res.body.commandId).status = 200
      /\ GetCommandResponse(res.body.commandId).body.command.status = "pending")

\* C2: every accepted command eventually reaches 'completed' or 'failed',
\* whatever submissions, queries and alert operations are interleaved,
\* provided its timer fires.
C2_EveryCommandTerminates ==
  \A i \in 1..MaxCmds :
    (Len(cmds) >= i) ~> (Len(cmds) >= i /\ cmds[i].status \in Terminal)

\* a command has terminated while another is still executing and an alert
\* has been ingested in between
C2_Witness ==
  /\ \E i \in 1..Len(cmds) : cmds[i].status \in Terminal
  /\ \E j \in 1..Len(cmds) : cmds[j].status = "executing"
  /\ Len(alerts) > 0

Lifecycles ==
  { <<"pending", "executing">>,
    <<"pending", "executing", "completed">>,
    <<"pending", "executing", "failed">> }

IsUpdate(c, k) == inbox[c][k].event = "command-update"

\* C3: the statuses assigned to a command are pending, executing and then
\* one terminal status, in this order and nothing after it; and no client is
\* sent the 'executing' update of a command after a terminal update of it.
C3_StatusOrder ==
  /\ \A i \in 1..Len(cmds) :
       /\ statusLog[i] \in Lifecycles
       /\ cmds[i].status = statusLog[i][Len(statusLog[i])]
  /\ \A c \in Clients : \A j \in 1..Len(inbox[c]), k \in 1..Len(inbox[c]) :
       (/\ j < k
        /\ IsUpdate(c, j)
        /\ IsUpdate(c, k)
        /\ inbox[c][j].data.id = inbox[c][k].data.id
        /\ inbox[c][j].data.status \in Terminal)
       => inbox[c][k].data.status \in Terminal

\* a client has been sent the 'executing' update and then the terminal
\* update of a command
C3_Witness ==
  \E c \in Clients : \E j \in 1..Len(inbox[c]), k \in 1..Len(inbox[c]) :
    /\ j < k
    /\ IsUpdate(c, j)
    /\ IsUpdate(c, k)
    /\ inbox[c][j].data.id = inbox[c][k].data.id
    /\ inbox[c][j].data.status = "executing"
    /\ inbox[c][k].data.status \in Terminal

\* the validation failures the claim names: an unknown command name, a
\* missing required parameter, a parameter outside its range
ClaimedInvalid(command, parameters) ==
  LET value == IF parameters = Null THEN Undefined ELSE parameters.props.value
  IN  \/ command \notin {"set_temperature", "set_pressure", "start", "stop"}
      \/ command \in {"set_temperature", "set_pressure"} /\ value = Undefined
      \/ command = "set_temperature" /\ value.t = "number"
           /\ (value.n < -80 \/ value.n > 300)
      \/ command = "set_pressure" /\ value.t = "number"
           /\ (value.n < 0 \/ value.n > 1000)

\* C4 (as claimed): a submission that fails validation is answered 400,
\* leaves the command store unchanged and broadcasts nothing.
C4_InvalidAnswered400 ==
  [][\A id \in Instruments, b \in CommandBodies, rnd \in RandomSuffixes,
       elapsed \in 0..1 :
       (/\ ClaimedInvalid(b.command, b.parameters)
        /\ PostCommand(id, b.command, b.parameters, rnd, elapsed))
       => (/\ res'.status = 400
           /\ UNCHANGED <<req, upstream, cmds, controlCommands, inbox>>)]_vars

\* C5: the buffer never holds more than 500 alerts; an accepted ingest puts
\* the new alert first and keeps the others in order, dropping only the
\* oldest one, and only when the buffer was full.
C5_BufferCapped ==
  /\ [](Len(alerts) <= 500)
  /\ [][ingested' # ingested =>
         /\ alerts'[1].seq = ingested'
         /\ Tail(alerts') = IF Len(alerts) = 500 THEN SubSeq(alerts, 1, 499)
                                                 ELSE alerts]_vars

\* 501 alerts were accepted in a row: the 1st is gone, the 501st is first
C5_Witness ==
  /\ ingested = 501
  /\ Len(alerts) = 500
  /\ alerts[1].seq = 501
  /\ alerts[500].seq = 2

IsEvent(c, k, event) == inbox[c][k].event = event

\* C6 (as claimed): every 'anomaly_alert' a client is delivered comes after
\* the 'alerts-history' of its subscribe-alerts request.
C6_HistoryBeforeLive ==
  \A c \in Clients : \A k \in 1..Len(inbox[c]) :
    IsEvent(c, k, "anomaly_alert")
      => \E j \in 1..(k - 1) : IsEvent(c, j, "alerts-history")

\* C6 (amended): a subscribe-alerts request is answered at once with an
\* 'alerts-history' carrying the min(10, n) most recently ingested of the n
\* stored alerts, newest first, and every 'anomaly_alert' delivered to the
\* client after it is of an alert newer than all of these.
C6_HistoryThenNewer ==
  /\ [][\A c \in Clients :
         SubscribeAlerts(c) =>
           LET sent == inbox'[c][Len(inbox[c]) + 1]
               n == Len(alerts)
           IN  /\ sent.event = "alerts-history"
               /\ Len(sent.data.alerts) = IF n < 10 THEN n ELSE 10
               /\ sent.data.count = Len(sent.data.alerts)
               /\ \A m \in 1..Len(sent.data.alerts) :
                    /\ sent.data.alerts[m] = alerts[m]
                    /\ \A l \in (m + 1)..n : alerts[m].seq > alerts[l].seq]_vars
  /\ [](\A c \in Clients : \A j \in 1..Len(inbox[c]), k \in 1..Len(inbox[c]) :
         (j < k /\ IsEvent(c, j, "alerts-history") /\ IsEvent(c, k, "anomaly_alert"))
           => \A m \in 1..Len(inbox[c][j].data.alerts) :
                inbox[c][k].data.seq > inbox[c][j].data.alerts[m].seq)

\* a client that was delivered a live alert before subscribing got a history
\* of 10 out of more than 10 stored alerts, and a live alert after it
C6_Witness ==
  \E c \in Clients : \E i \in 1..Len(inbox[c]), j \in 1..Len(inbox[c]),
                        k \in 1..Len(inbox[c]) :
    /\ i < j /\ j < k
    /\ IsEvent(c, i, "anomaly_alert")
    /\ IsEvent(c, j, "alerts-history")
    /\ IsEvent(c, k, "anomaly_alert")
    /\ inbox[c][j].data.count = 10
    /\ inbox[c][j].data.alerts[10].seq > 1

\* an IPv4 address in dotted-quad notation: four decimal numbers up to 255
IsIPv4(s) ==
  LET runs == Split(s, ".")
  IN  /\ Len(runs) = 4
      /\ \A g \in 1..4 :
           /\ Len(runs[g]) \in 1..3
           /\ \A k \in 1..Len(runs[g]) : runs[g][k] \in Digits
           /\ Decimal(runs[g]) <= 255

\* an IPv4 address, optionally followed by '-<digits>'
IPv4WithSuffix(id) ==
  \/ IsIPv4(id)
  \/ \E k \in 1..(Len(id) - 1) :
       /\ id[k] = "-"
       /\ IsIPv4(SubSeq(id, 1, k - 1))
       /\ \A j \in (k + 1)..Len(id) : id[j] \in Digits

\* C7 (as claimed): a structured route given an instrumentId that is no IPv4
\* address, optionally followed by '-<digits>', answers 400 with
\* success:false and issues no outbound request.
C7_NonIPv4Rejected ==
  [][\A statusCode \in UpstreamStatuses :
       (/\ req # NoRequest
        /\ ~IPv4WithSuffix(req.instrumentId)
        /\ ProxyRoute(req, statusCode))
       => (/\ res'.status = 400
           /\ res'.body.success = FALSE
           /\ upstream' = upstream)]_vars

\* a required field the submission lacks: absent, null or empty
Lacks(v) == v \in {Undefined, Null, Str("")}

\* C8 (as claimed): POST /api/alerts is answered 400, with nothing stored or
\* broadcast, exactly when id, instrument_id or severity is lacking, and is
\* accepted (stored first in the buffer and acknowledged) otherwise.
C8_RejectedExactlyWhenLacking ==
  [][\A a \in AlertBodies :
       PostAlert(a) =>
         IF Lacks(a.id) \/ Lacks(a.instrument_id) \/ Lacks(a.severity)
           THEN res'.status = 400 /\ UNCHANGED <<alerts, ingested, inbox>>
           ELSE /\ res'.status = 200
                /\ res'.body.success
                /\ Len(alerts') = Len(alerts) + 1
                /\ alerts'[1].id = a.id]_vars

\* the events of this name the step has appended to the client's inbox
Delivered(c, event) ==
  { k \in (Len(inbox[c]) + 1)..Len(inbox'[c]) : inbox'[c][k].event = event }

\* C9 (as claimed): an accepted ingest sends 'anomaly_alert' once to exactly
\* the clients subscribed to the alert feed and 'instrument_alert' once to
\* exactly the clients subscribed to the alert's instrument.
C9_FanOutToSubscribers ==
  [][ingested' # ingested =>
       \A c \in Clients :
         /\ Cardinality(Delivered(c, "anomaly_alert")) =
              IF Room("alerts", "") \in rooms[c] THEN 1 ELSE 0
         /\ Cardinality(Delivered(c, "instrument_alert")) =
              IF Room("instrument", alerts'[1].instrument_id.s) \in rooms[c]
                THEN 1 ELSE 0]_vars

\* C9 (amended): an accepted ingest sends the full alert once as
\* 'anomaly_alert' to every connected client, subscribed to the alert feed
\* or not, and once as 'instrument_alert' to exactly the connected clients
\* that joined the room of the alert's instrument; nothing else is sent.
C9_FanOutToConnected ==
  [][ingested' # ingested =>
       \A c \in Clients :
         /\ SubSeq(inbox'[c], 1, Len(inbox[c])) = inbox[c]
         /\ Cardinality(Delivered(c, "anomaly_alert")) =
              IF sock[c] = "open" THEN 1 ELSE 0
         /\ Cardinality(Delivered(c, "instrument_alert")) =
              IF Room("instrument", alerts'[1].instrument_id.s) \in rooms[c]
                THEN 1 ELSE 0
         /\ \A k \in (Len(inbox[c]) + 1)..Len(inbox'[c]) :
              /\ inbox'[c][k].event \in {"anomaly_alert", "instrument_alert"}
              /\ inbox'[c][k].data = alerts'[1]]_vars

\* a client that joined only the room of instrument i1 has been sent an
\* 'instrument_alert' and the 'anomaly_alert' of an alert of instrument i2
C9_Witness ==
  \E c \in Clients : \E j \in 1..Len(inbox[c]), k \in 1..Len(inbox[c]) :
    /\ rooms[c] = {Room("instrument", "i1")}
    /\ IsEvent(c, j, "instrument_alert")
    /\ IsEvent(c, k, "anomaly_alert")
    /\ inbox[c][k].data.instrument_id = Str("i2")

\* C10 (as claimed): every accepted submission gets an id no earlier command
\* has, so the store holds as many commands as were accepted.
C10_IdsUnique ==
  /\ \A i \in 1..Len(cmds), j \in 1..Len(cmds) : i # j => cmds[i].id # cmds[j].id
  /\ Cardinality(DOMAIN controlCommands) = Len(cmds)

\* C11 (as claimed): a command id that has been returned stays in the store,
\* and no step changes the instrumentId, the command name or the parameters
\* that GET /api/control/commands/<id> shows for it.
C11_RecordKept ==
  [][\A k \in DOMAIN controlCommands :
       /\ k \in DOMAIN controlCommands'
       /\ LET before == cmds[controlCommands[k]]
              after == cmds'[controlCommands'[k]]
          IN  /\ after.instrumentId = before.instrumentId
              /\ after.command = before.command
              /\ after.parameters = before.parameters]_vars

\* C12: nothing serializes the commands of an instrument: the completion of
\* every executing command is enabled, whatever other commands of the same
\* instrument are executing and whichever was submitted first.
C12_NotSerialized ==
  \A i \in 1..Len(cmds) :
    cmds[i].status = "executing"
      => ENABLED (\E shouldFail \in BOOLEAN, executionTime \in ExecutionTimes :
                    TimerFire(i, shouldFail, executionTime))

\* of two commands of one instrument, the one submitted later has finished
\* while the one submitted first is still executing
C12_Witness ==
  \E i \in 1..Len(cmds), j \in 1..Len(cmds) :
    /\ i < j
    /\ cmds[i].instrumentId = cmds[j].instrumentId
    /\ cmds[i].status = "executing"
    /\ cmds[j].status \in Terminal

\* C17 (as claimed): a submission whose command name is not in the
\* validation table is answered 400 with 'Unknown command: <name>'.
C17_UnknownCommandRejected ==
  [][\A id \in Instruments, b \in CommandBodies, rnd \in RandomSuffixes,
       elapsed \in 0..1 :
       (/\ b.command \notin DOMAIN validationRules
        /\ PostCommand(id, b.command, b.parameters, rnd, elapsed))
       => (/\ res'.status = 400
           /\ res'.body.error = [error |-> "Unknown command: ${command}",
                                 command |-> b.command])]_vars

\* C14: whenever every buffered alert has a severity of the four fixed
\* ones, GET /api/alerts/stats answers by_severity buckets whose sum is
\* total, and total is the buffer size, also after evictions and a purge.
C14_BucketsSumToTotal ==
  [][(GetAlertStats
      /\ \A k \in 1..Len(alerts) : alerts[k].severity \in {Str(s) : s \in Severities})
     => LET stats == res'.body.stats
        IN  /\ stats.by_severity["critical"] + stats.by_severity["high"]
                 + stats.by_severity["medium"] + stats.by_severity["low"] = stats.total
            /\ stats.total = Len(alerts)]_vars

\* statistics of a full buffer that has evicted alerts and holds two
\* severities
C14_Witness ==
  /\ res.route = "GET /api/alerts/stats"
  /\ ingested > MAX_ALERTS
  /\ Len(alerts) = MAX_ALERTS
  /\ res.body.stats.total = MAX_ALERTS
  /\ res.body.stats.by_severity["low"] > 0
  /\ res.body.stats.by_severity["critical"] > 0
  /\ \A k \in 1..Len(alerts) : alerts[k].severity \in {Str(s) : s \in Severities}

\* the accepted alerts, by order of acceptance, that are no longer buffered:
\* while fewer than MAX_ALERTS alerts were accepted these are the purged ones
Purged ==
  {n \in 1..ingested : \A k \in 1..Len(alerts) : alerts[k].seq # n}

\* C15: DELETE /api/alerts empties the buffer, reports the number of alerts
\* it held and leaves the command store alone; queries, statistics and the
\* history sent to a new subscriber contain no purged alert.
C15_PurgeRemovesAll ==
  /\ [][DeleteAlerts
          => /\ alerts' = <<>>
             /\ res'.body.message.count = Len(alerts)
             /\ cmds' = cmds
             /\ controlCommands' = controlCommands]_vars
  /\ [][\A severity \in QuerySeverities :
          GetAlerts(Undefined, severity, Undefined)
            => \A k \in 1..Len(res'.body.alerts) :
                 res'.body.alerts[k].seq \notin Purged]_vars
  /\ [][GetAlertStats
          => res'.body.stats.total = ingested - Cardinality(Purged)]_vars
  /\ [][\A c \in Clients :
          SubscribeAlerts(c)
            => LET sent == inbox'[c][Len(inbox[c]) + 1]
               IN  \A m \in 1..Len(sent.data.alerts) :
                     sent.data.alerts[m].seq \notin Purged]_vars

\* after a purge and one more alert, a query has returned that alert alone
\* and the command store still holds a command
C15_Witness ==
  /\ Purged # {}
  /\ Len(alerts) = 1
  /\ res.route = "GET /api/alerts"
  /\ res.body.alerts = alerts
  /\ res.body.total_alerts = 1
  /\ Len(cmds) > 0
  /\ DOMAIN controlCommands # {}

\* the buffered alerts that match every filter supplied, in buffer order
Matching(instrument_id, severity) ==
  SelectSeq(alerts, LAMBDA a :
    /\ Lacks(instrument_id) \/ a.instrument_id = instrument_id
    /\ Lacks(severity) \/ a.severity = severity)

\* a limit that is absent or written in digits, and its value
IsNatural(limit) ==
  \/ limit = Undefined
  \/ Len(limit.chars) > 0 /\ \A k \in 1..Len(limit.chars) : limit.chars[k] \in Digits

NaturalOf(limit) == IF limit = Undefined THEN 50 ELSE Decimal(limit.chars)

\* C13 (as claimed): GET /api/alerts returns the first min(limit, m) of the
\* m buffered alerts matching the filters, in buffer order, with count = m
\* and total_alerts = the buffer size.
C13_CountIsMatches ==
  [][\A instrument_id \in QueryInstruments, severity \in QuerySeverities,
       limit \in Limits :
       (IsNatural(limit) /\ GetAlerts(instrument_id, severity, limit))
       => LET matching == Matching(instrument_id, severity)
          IN  /\ res'.body.alerts =
                   SubSeq(matching, 1, Min(NaturalOf(limit), Len(matching)))
              /\ res'.body.count = Len(matching)
              /\ res'.body.total_alerts = Len(alerts)]_vars

\* C13 (amended): as claimed, except that count is the number of alerts
\* returned, min(limit, m).
C13_CountIsReturned ==
  [][\A instrument_id \in QueryInstruments, severity \in QuerySeverities,
       limit \in Limits :
       (IsNatural(limit) /\ GetAlerts(instrument_id, severity, limit))
       => LET matching == Matching(instrument_id, severity)
          IN  /\ res'.body.alerts =
                   SubSeq(matching, 1, Min(NaturalOf(limit), Len(matching)))
              /\ res'.body.count = Min(NaturalOf(limit), Len(matching))
              /\ res'.body.total_alerts = Len(alerts)]_vars

\* a query with limit 1 has returned the newer of two buffered alerts of
\* one instrument and one severity
C13_Witness ==
  /\ res.route = "GET /api/alerts"
  /\ Len(alerts) = 2
  /\ alerts[1].instrument_id = alerts[2].instrument_id
  /\ alerts[1].severity = alerts[2].severity
  /\ res.body.alerts = <<alerts[1]>>
  /\ res.body.count = 1
  /\ res.body.total_alerts = 2

\* C16: GET /api/control/instruments/:id/commands returns only commands of
\* the instrument :id, at most limit of them (50 by default), and a command
\* submitted later never comes after one submitted earlier, also when both
\* were created at the same clock value.
C16_ListedNewestFirst ==
  [][\A id \in Instruments, limit \in ListLimits :
       ListCommands(id, limit)
         => LET listed == res'.body.commands
            IN  /\ \A k \in 1..Len(listed) : listed[k].instrumentId = id
                /\ Len(listed) <= NaturalOf(limit)
                /\ \A k \in 1..Len(listed), l \in 1..Len(listed) :
                     k < l => controlCommands[listed[k].id] > controlCommands[listed[l].id]]_vars

\* the parameters the specification calls valid for a command name: a
\* numeric value inside the range of the commands that take one
ValidParameters(b) ==
  LET value == b.parameters.props.value
  IN  /\ b.command = "set_temperature" => value.t = "number" /\ value.n \in -80..300
      /\ b.command = "set_pressure" => value.t = "number" /\ value.n \in 0..1000
      /\ b.command = "set_speed" => value.t = "number"

\* the submission was queued: answered 200 with the id of the stored record
Queued(b) ==
  /\ res'.status = 200
  /\ res'.body.commandId \in DOMAIN controlCommands'
  /\ Len(cmds') = Len(cmds) + 1
  /\ cmds'[controlCommands'[res'.body.commandId]].command = b.command
  /\ cmds'[controlCommands'[res'.body.commandId]].parameters = b.parameters

\* C18 (as claimed): each of set_temperature, set_speed, set_pressure, start
\* and stop, submitted with valid parameters, passes validation and is
\* queued with a commandId.
C18_EnumerationQueued ==
  [][\A b \in ParameterBodies, elapsed \in 0..1 :
       (/\ b.command \in {"set_temperature", "set_speed", "set_pressure", "start", "stop"}
        /\ ValidParameters(b)
        /\ Len(cmds) < MaxCmds
        /\ PostCommand("i1", b.command, b.parameters, "k3x", elapsed))
       => Queued(b)]_vars

\* C18 (amended): each of set_temperature, set_pressure, start and stop,
\* submitted with valid parameters, passes validation and is queued with a
\* commandId; set_speed is answered 400 'Unknown command: set_speed'.
C18_TableQueued ==
  [][\A b \in ParameterBodies, elapsed \in 0..1 :
       (/\ ValidParameters(b)
        /\ Len(cmds) < MaxCmds
        /\ PostCommand("i1", b.command, b.parameters, "k3x", elapsed))
       => IF b.command \in {"set_temperature", "set_pressure", "start", "stop"}
            THEN Queued(b)
            ELSE /\ res'.status = 400
                 /\ res'.body.error = [error |-> "Unknown command: ${command}",
                                       command |-> "set_speed"]
                 /\ UNCHANGED <<cmds, controlCommands>>]_vars

\* a stop and a set_pressure at the upper boundary have been queued
C18_Witness ==
  /\ Len(cmds) = 2
  /\ cmds[1].command = "stop"
  /\ cmds[2].command = "set_pressure"
  /\ cmds[2].parameters.props.value = Num(1000)
  /\ res.route = PostCommandRoute
  /\ res.status = 200
  /\ res.body.commandId = cmds[2].id

\* C19 (as claimed): every stored command with a range rule carries a
\* numeric value inside the inclusive range; a submission without the value
\* is rejected with 'Missing required parameter: value' and one whose value
\* is outside the range with 400 'Parameter value out of range (<min>-<max>)'.
C19_StoredValueInRange ==
  /\ [](\A i \in 1..Len(cmds) :
         LET value == cmds[i].parameters.props.value
         IN  /\ cmds[i].command = "set_temperature"
                  => value.t = "number" /\ value.n \in -80..300
             /\ cmds[i].command = "set_pressure"
                  => value.t = "number" /\ value.n \in 0..1000)
  /\ [][\A b \in ParameterBodies, elapsed \in 0..1 :
          (/\ b.command \in {"set_temperature", "set_pressure"}
           /\ PostCommand("i1", b.command, b.parameters, "k3x", elapsed))
          => LET value == b.parameters.props.value
                 range == validationRules[b.command].ranges[1]
             IN  /\ value = Undefined
                      => /\ res'.status = 400
                         /\ res'.body.error.error = "Missing required parameter: ${param}"
                         /\ res'.body.error.param = "value"
                 /\ (value.t = "number" /\ value.n \notin range.min..range.max)
                      => /\ res'.status = 400
                         /\ res'.body.error.error =
                              "Parameter ${param} out of range (${range.min}-${range.max})"
                         /\ res'.body.error.param = "value"
                         /\ res'.body.error.min = range.min
                         /\ res'.body.error.max = range.max]_vars

\* a decimal integer: an optional minus sign and digits, nothing else
IntegerValue(v) ==
  LET ds == IF v # <<>> /\ Head(v) = "-" THEN Tail(v) ELSE v
  IN  IF ds # <<>> /\ \A k \in 1..Len(ds) : ds[k] \in Digits
        THEN <<IF ds = v THEN Decimal(ds) ELSE 0 - Decimal(ds)>>
        ELSE <<>>

\* C20 (as claimed): on setspeed, setruntime and settemperature with a valid
\* instrument IP, a value is forwarded to the instrument iff it is an
\* integer inside the inclusive range of the route; any other value is
\* answered 400 and no outbound request is made.
C20_ForwardedIffInRange ==
  [][(/\ req # NoRequest
      /\ req.route.check = "value"
      /\ IsIPv4(InstrumentIp(req.instrumentId))
      /\ ProxyStep)
     => LET value == IntegerValue(req.value)
            inRange == value # <<>> /\ value[1] \in req.route.min..req.route.max
        IN  IF inRange THEN upstream' = upstream + 1
            ELSE res'.status = 400 /\ upstream' = upstream]_vars

C23_HeaderMeansProxied ==
  [][\A request \in InboundRequests, statusCode \in {0, 200, 404},
        rnd \in RandomSuffixes :
       Dispatch(request, statusCode, rnd)
         => IF ~Lacks(request.target)
              THEN /\ upstream' = upstream + 1
                   /\ res'.route = "generic proxy"
                   /\ UNCHANGED <<cmds, controlCommands, alerts>>
              ELSE upstream' = upstream /\ res'.route # "generic proxy"]_vars

\* C24 (as claimed): every error response the gateway produces, 4xx or 5xx,
\* of the generic proxy, the command endpoints and the alert endpoints
\* carries an error or message field and a timestamp field.  (An answer of
\* the target that the generic proxy passes on is not the gateway's.)
C24_ErrorsCarryTimestamp ==
  (/\ res.status >= 400
   /\ res.route # ""
   /\ "proxied" \notin DOMAIN res.body)
  => /\ "timestamp" \in DOMAIN res.body
     /\ "error" \in DOMAIN res.body \/ "message" \in DOMAIN res.body

\* the place of the host ip in the candidate list
Place(ip) == CHOOSE k \in 1..Len(ips) : ips[k] = ip

\* C25: while a scan runs the instrument list is empty; once every probe
\* has settled, whichever failed, the scan ends and the list holds exactly
\* the hosts whose probe produced a non-empty model, in candidate order.
C25_ListAfterAllSettled ==
  /\ [](ui.isScanning => ui.foundInstruments = <<>>)
  /\ []((ui.isScanning /\ \A k \in 1..Len(ips) : ui.probes[k].settled)
          => ENABLED ScanSettled)
  /\ [][ScanSettled
          => LET list == ui'.foundInstruments
             IN  /\ ~ui'.isScanning
                 /\ {list[n].ip : n \in 1..Len(list)}
                      = {ips[k] : k \in {j \in 1..Len(ips) : ui.probes[j].result # <<>>}}
                 /\ \A n \in 1..Len(list), m \in 1..Len(list) :
                      n < m => Place(list[n].ip) < Place(list[m].ip)]_vars

\* a scan has ended in which the probe of localhost failed and the two
\* instruments listed were found in the reverse of the candidate order
C25_Witness ==
  /\ ~ui.isScanning
  /\ ui.probes[1].settled /\ ui.probes[1].result = <<>>
  /\ Len(ui.foundInstruments) = 2
  /\ \E t1 \in 0..9, t2 \in 0..9 :
       /\ t1 > t2
       /\ ui.foundInstruments[1].id = ui.foundInstruments[1].ip \o <<"-">> \o NumberChars(t1)
       /\ ui.foundInstruments[2].id = ui.foundInstruments[2].ip \o <<"-">> \o NumberChars(t2)

\* C26 (as claimed): every instrument the scanner lists has an ip in IPv4
\* dotted-quad syntax, the IP the structured routes extract from its id is
\* that ip and passes their validation, and no request made for a listed
\* instrument is answered 400 because of its id.
C26_ScannedIdsAreIPv4 ==
  /\ \A n \in 1..Len(ui.foundInstruments) :
       LET instrument == ui.foundInstruments[n]
       IN  /\ IsIPv4(instrument.ip)
           /\ InstrumentIp(instrument.id) = instrument.ip
           /\ ipRegexTest(InstrumentIp(instrument.id))
  /\ ~(/\ res.status = 400
        /\ res.body.error = "Invalid instrument ID or IP address format")

\* C27 (as claimed): a POST /api/alerts answered 400 or 500 leaves the alert
\* buffer unchanged and broadcasts nothing.
C27_FailedIngestStoresNothing ==
  [][\A a \in AlertBodies :
       (PostAlert(a) /\ res'.status \in {400, 500})
         => UNCHANGED <<alerts, ingested, inbox>>]_vars

\* C28: each stored command has a result iff its status is 'completed' and
\* an error iff its status is 'failed'; a pending or executing command has
\* neither.
C28_OutcomeMatchesStatus ==
  \A i \in 1..Len(cmds) :
    /\ cmds[i].result # NullField <=> cmds[i].status = "completed"
    /\ cmds[i].error # NullField <=> cmds[i].status = "failed"
    /\ cmds[i].status \in {"pending", "executing"}
         => cmds[i].result = NullField /\ cmds[i].error = NullField

\* the store holds a completed command with its result and a failed one
\* with its error
C28_Witness ==
  \E i \in 1..Len(cmds), j \in 1..Len(cmds) :
    /\ cmds[i].status = "completed" /\ cmds[i].result # NullField
    /\ cmds[j].status = "failed" /\ cmds[j].error # NullField
    /\ cmds[i].id \in DOMAIN controlCommands
    /\ cmds[j].id \in DOMAIN controlCommands

\* C29 (as claimed): each status transition of a command is delivered as one
\* 'command-update' to every connected client, also to a client that joined
\* the instrument's room and to one that subscribed to its commands.
C29_UpdateDeliveredOnce ==
  [][statusLog' # statusLog =>
       \A c \in Clients :
         Cardinality(Delivered(c, "command-update")) = IF sock[c] = "open" THEN 1 ELSE 0]_vars

\* C30 (as claimed): however the backup fetch response, 'alerts-history' and
\* the live 'anomaly_alert' events interleave with ingestion, an alert that
\* was ingested while the panel was connected and is among the newest
\* maxAlerts is never twice in the panel's list, and is in it once all
\* events and the fetch have been handled.
C30_EachAlertOnce ==
  LET list == ui.panel.alerts
      Times(seq) == Cardinality({k \in 1..Len(list) : list[k].seq = seq})
      handled == /\ inbox[PanelSocket] = <<>>
                 /\ ui.panel.fetch.state = "done"
                 /\ Room("alerts", "") \in rooms[PanelSocket]
  IN  \A seq \in ui.panel.live :
        ingested - seq < maxAlerts =>
          /\ Times(seq) <= 1
          /\ handled => Times(seq) = 1

====
